---- MODULE Spec2Model ----
(***************************************************************************)
(* Ghoti::shared_string_view (src/src/shared_string_view.cpp).             *)
(*                                                                         *)
(* A view is the triple (target, start, len) of                            *)
(* src/include/shared_string_view.hpp:159-172: a std::shared_ptr to a      *)
(* std::string plus two size_t.  The model keeps a small heap of strings   *)
(* with their shared_ptr use counts and a fixed number of view objects.    *)
(***************************************************************************)
EXTENDS Integers, Sequences, FiniteSets, TLC

\* ------------------------------------------------------------------ bounds
\* Number of view objects that can be alive at once.
MaxViews == 3
\* Longest std::string the heap may hold (guards of the growing operations).
MaxLen == 3
\* Width of size_t in the model; all size_t arithmetic is modulo 2^WordBits.
WordBits == 3
\* Number of operations in one run of the program.
MaxSteps == 4

Mod == 2 ^ WordBits

ViewIds == 1 .. MaxViews
\* One more string than views: operator+= allocates its new string before
\* the old one is released (shared_string_view.cpp:74).
BufIds == 1 .. (MaxViews + 1)
\* The empty shared_ptr.
NULL == 0

Chars == {"a", "b"}
\* Arguments of the public constructors.
InitStrs == { <<>>, <<"a">>, <<"a", "b">> }
\* Arguments of substr: small values and values next to SIZE_MAX.
Offsets == {0, 1, Mod - 1}
Lengths == {0, 1, Mod - 1}

VARIABLES
    views,      \* view object -> [live, target, start, len]
    strings,    \* heap: string id -> its bytes (<<>> when not allocated)
    useCount,   \* heap: string id -> shared_ptr use count
    fault,      \* TRUE once an operation has dereferenced an empty
                \* shared_ptr or let std::out_of_range escape: the run ends
    last,       \* the operation that produced the current state
    slices,     \* the std::string_views handed out so far: [buf, start,
                \* len, bytes, valid]; valid is FALSE once the storage
                \* the pointer refers to may have been freed
    steps,      \* number of operations performed so far
    fs,         \* filesystem: path -> [exists, bytes]
    files,      \* File object -> [live, path, isTemp]
    tempFile,   \* history: File object -> the temp file made for it by
                \* createTemp (handed on by moves) that has not been
                \* renamed or removed since; no action reads it
    flast,      \* the File operation that produced the current state
    parameterValues, \* HasParameters object -> key -> the value set, if any
    inheritFrom,     \* HasParameters object -> the object it inherits from
    call,       \* the getParameterAny call in progress, or its result
    plast,      \* the last change made to a HasParameters object, and
                \* whether the key had a value set before it
    anyValues,  \* AnyMap: key -> the value set, if any
    alast,      \* the last operation on the AnyMap, the last change made
                \* to it and the result of the last query
    errorOrs    \* ErrorOr object -> how it was made, and what it holds

viewVars == <<views, strings, useCount, fault, last, slices>>
fileVars == <<fs, files, tempFile, flast>>
paramVars == <<parameterValues, inheritFrom, call, plast>>
anyMapVars == <<anyValues, alast>>
errorOrVars == <<errorOrs>>
utilVars == <<paramVars, anyMapVars, errorOrVars>>
vars == <<views, strings, useCount, fault, last, slices, steps, fs, files, tempFile,
          flast, parameterValues, inheritFrom, call, plast, anyValues, alast,
          errorOrs>>

\* ------------------------------------------------------- size_t arithmetic
Min(x, y) == IF x <= y THEN x ELSE y
Add(x, y) == (x + y) % Mod
Sub(x, y) == (x - y + Mod) % Mod

\* ------------------------------------------------------------- std::string
\* std::string::substr(pos, n) for pos <= size(): at most n bytes from pos.
StrSubstr(s, pos, n) == SubSeq(s, pos + 1, pos + Min(n, Len(s) - pos))
\* std::string::substr and std::string_view::substr throw std::out_of_range
\* when pos > size().
SubstrThrows(s, pos) == pos > Len(s)

\* ------------------------------------------------------------ view objects
\* A slot that holds no object.
NoView == [live |-> FALSE, target |-> NULL, start |-> 0, len |-> 0]

NoOp ==
    [op |-> "init", self |-> 0, rhs |-> 0, dst |-> 0, inplace |-> FALSE,
     prev |-> [op |-> "init", self |-> 0, inplace |-> FALSE]]

\* The record of an operation: its name, its operands, and the operation
\* before it.
Op(name, self, rhs, dst) ==
    [op |-> name, self |-> self, rhs |-> rhs, dst |-> dst, inplace |-> FALSE,
     prev |-> [op |-> last.op, self |-> last.self, inplace |-> last.inplace]]

TypeOK ==
    /\ views \in [ViewIds -> [live : BOOLEAN, target : BufIds \cup {NULL},
                              start : 0 .. Mod - 1, len : 0 .. Mod - 1]]
    /\ strings \in [BufIds -> Seq(Chars)]
    /\ useCount \in [BufIds -> 0 .. MaxViews]
    /\ fault \in BOOLEAN
    /\ steps \in 0 .. MaxSteps
    /\ last.op \in {"init", "construct", "copy", "move", "destroy", "substr",
                   "pluseq", "pluseqchar", "plus", "slice"}
    /\ \A s \in slices : s.valid \in BOOLEAN /\ s.buf \in BufIds \cup {NULL}

\* ------------------------------------------------------------- shared_ptr
FreeBufs == {b \in BufIds : useCount[b] = 0}
\* std::make_shared<std::string>: a string that no shared_ptr owns yet.
MakeShared == CHOOSE b \in FreeBufs : \A c \in FreeBufs : b <= c
\* Copying a shared_ptr: one more owner (none for the empty pointer).
Acquire(uc, t) == IF t = NULL THEN uc ELSE [uc EXCEPT ![t] = @ + 1]
\* Faulty variant, used to test the properties:
\* (a destroyed shared_ptr keeps its share of the string)
ReleaseLeak(uc, t) == uc
\* Destroying or reassigning a shared_ptr: one owner less.
Release(uc, t) == IF t = NULL THEN uc ELSE [uc EXCEPT ![t] = @ - 1]
\* The string is destroyed with its last owner.
Reclaim(strs, uc) == [b \in BufIds |-> IF uc[b] = 0 THEN <<>> ELSE strs[b]]

\* The strings that have lost their last owner between uc and ucNext.
Freed(uc, ucNext) == {b \in BufIds : uc[b] > 0 /\ ucNext[b] = 0}

\* Faulty variant, used to test the properties:
\* (a string_view outlives the storage it points into)
DangleNothing(sl, gone) == sl

\* The string_views pointing into the storage of the strings in gone are
\* left dangling: that storage has been freed.
Dangle(sl, gone) ==
    {IF s.buf \in gone THEN [s EXCEPT !.valid = FALSE] ELSE s : s \in sl}

\* ---------------------------------------------------------------- queries
\* operator std::string_view, shared_string_view.cpp:27-32.
StringView(v) ==
    IF v.target # NULL
    THEN StrSubstr(strings[v.target], v.start, v.len)
    ELSE <<>>

\* length(), shared_string_view.cpp:34-36.
Length(v) == v.len

\* Faulty variant, used to test the properties:
\* (the view only has to end where the string ends)
IsWholeEndOnly(v) == Add(v.start, v.len) = Len(strings[v.target])

\* The test of operator+= and operator+ for "the view is the whole string",
\* shared_string_view.cpp:64, 67, 75, 85, 106, 109.
IsWhole(v) == (v.start = 0) /\ (v.len = Len(strings[v.target]))

\* Faulty variant, used to test the properties:
\* (the operand's whole string is taken, whatever the view)
BytesWholeTarget(v) == strings[v.target]

\* The bytes operator+= and operator+ take from an operand:
\* whole ? *target : target->substr(start, len).
Bytes(v) ==
    IF IsWhole(v)
    THEN strings[v.target]
    ELSE StrSubstr(strings[v.target], v.start, v.len)

\* operator[](pos), shared_string_view.cpp:118-120: (*this->target)[pos].
Index(v, pos) == strings[v.target][pos + 1]

\* Faulty variant, used to test the properties:
\* (only the bytes are compared, also when a target is missing)
ViewEqualsByBytes(v, w) == StringView(v) = StringView(w)

\* operator==, shared_string_view.cpp:45-51.
ViewEquals(v, w) ==
    IF v.target # NULL /\ w.target # NULL
    THEN StringView(v) = StringView(w)
    ELSE IF v.target # NULL \/ w.target # NULL
         THEN FALSE
         ELSE TRUE

\* The value of a byte, as std::char_traits<char> compares it.
Ord(c) == IF c = "a" THEN 97 ELSE 98

\* std::char_traits<char>::compare over the bytes k .. n of s and t.
RECURSIVE TraitsCompare(_, _, _, _)
TraitsCompare(s, t, k, n) ==
    IF k > n THEN 0
    ELSE IF Ord(s[k]) < Ord(t[k]) THEN -1
    ELSE IF Ord(s[k]) > Ord(t[k]) THEN 1
    ELSE TraitsCompare(s, t, k + 1, n)

\* std::string_view <=> std::string_view: the common prefix is compared
\* first, then the lengths.
SvCompare(s, t) ==
    LET r == TraitsCompare(s, t, 1, Min(Len(s), Len(t)))
    IN IF r < 0 THEN "less"
       ELSE IF r > 0 THEN "greater"
       ELSE IF Len(s) < Len(t) THEN "less"
       ELSE IF Len(s) > Len(t) THEN "greater"
       ELSE "equivalent"

\* Faulty variant, used to test the properties:
\* (the one-target case does not look at which side has the target)
ViewCompareOneSided(v, w) ==
    IF v.target # NULL /\ w.target # NULL
    THEN SvCompare(StringView(v), StringView(w))
    ELSE IF v.target # NULL \/ w.target # NULL
         THEN "greater"
         ELSE "equivalent"

\* Faulty variant, used to test the properties:
\* (the two outcomes of the one-target case are exchanged)
ViewCompareNullGreatest(v, w) ==
    IF v.target # NULL /\ w.target # NULL
    THEN SvCompare(StringView(v), StringView(w))
    ELSE IF v.target # NULL \/ w.target # NULL
         THEN IF v.target # NULL THEN "less" ELSE "greater"
         ELSE "equivalent"

\* operator<=>, shared_string_view.cpp:53-61.
ViewCompare(v, w) ==
    IF v.target # NULL /\ w.target # NULL
    THEN SvCompare(StringView(v), StringView(w))
    ELSE IF v.target # NULL \/ w.target # NULL
         THEN IF v.target # NULL THEN "greater" ELSE "less"
         ELSE "equivalent"

\* std::hash<std::string_view>: a size_t computed from the bytes alone
\* (here a multiplicative hash folded over the bytes).
RECURSIVE StdHashFrom(_, _, _)
StdHashFrom(s, k, h) ==
    IF k > Len(s) THEN h
    ELSE StdHashFrom(s, k + 1, (h * 31 + Ord(s[k])) % Mod)

StdHash(s) == StdHashFrom(s, 1, 7 % Mod)

\* Faulty variant, used to test the properties:
\* (the whole target string is hashed)
ViewHashOfTarget(v) ==
    IF v.target # NULL THEN StdHash(strings[v.target]) ELSE StdHash(<<>>)

\* std::hash<Ghoti::shared_string_view>, shared_string_view.cpp:142-144:
\* the view is converted to std::string_view and that is hashed.
ViewHash(v) == StdHash(StringView(v))

\* Faulty variant, used to test the properties:
\* (the conversion starts at the beginning of the target)
SliceFromZero(v) ==
    IF v.target # NULL THEN StrSubstr(strings[v.target], 0, v.len) ELSE <<>>

\* The std::string_view that begin, end, rbegin, rend and operator<< build
\* from the view, shared_string_view.cpp:123-139: string_view{*this}.
Slice(v) == StringView(v)

\* The bytes met from begin() to end(), shared_string_view.cpp:122-128.
ForwardBytes(v) == [k \in 1 .. Len(Slice(v)) |-> Slice(v)[k]]

\* The bytes met from rbegin() to rend(), shared_string_view.cpp:130-136.
ReverseBytes(v) ==
    [k \in 1 .. Len(Slice(v)) |-> Slice(v)[Len(Slice(v)) + 1 - k]]

\* The bytes operator<< writes, shared_string_view.cpp:138-140.
StreamBytes(v) == Slice(v)

\* ------------------------------------------------------- File: the data
\* Bounds of the File runs.
MaxFiles == 2
MaxFileLen == 2

FileIds == 1 .. MaxFiles
\* Names mkstemp can choose in the temp directory, and every path at which
\* a file can exist.
TmpPaths == {"/tmp/t1", "/tmp/t2"}
Paths == TmpPaths \cup {"/d/f"}
\* The path of File(): the empty string.
NoPath == ""
\* A path in a directory that does not exist: nothing can be created there.
BadPath == "/nodir/f"
\* The byte strings written by append and truncate.
WriteStrs == { <<"a">>, <<"b">> }
\* What another process writes to a file it creates.
IntruderBytes == <<"b">>

NoData == [exists |-> FALSE, bytes |-> <<>>]
Data(s) == [exists |-> TRUE, bytes |-> s]
NoFile == [live |-> FALSE, path |-> NoPath, isTemp |-> FALSE]

Brief(o) ==
    [op |-> o.op, self |-> o.self, dest |-> o.dest, ec |-> o.ec,
     wasTemp |-> o.wasTemp]
NoFileOp ==
    [op |-> "init", self |-> 0, other |-> 0, dest |-> NoPath, ec |-> "ok",
     wasTemp |-> FALSE,
     prev |-> [op |-> "init", self |-> 0, dest |-> NoPath, ec |-> "ok",
               wasTemp |-> FALSE]]
\* The record of an operation on object self: its name, the other object
\* or the destination path it was given, the error_code it returned,
\* whether self was a temp file when it was called, and the operation
\* before it.
FileOp(name, self, other, dest, ec) ==
    [op |-> name, self |-> self, other |-> other, dest |-> dest, ec |-> ec,
     wasTemp |-> files[self].live /\ files[self].isTemp,
     prev |-> Brief(flast)]

\* ---------------------------------------------------- ErrorOr: the data
\* std::error_code: a value in a category.
ErrorCode(category, value) == [category |-> category, value |-> value]
\* std::error_code{}.
NoError == ErrorCode("system", "0")
\* make_error_code(Ghoti::Util::ErrorCode), errorCode.cpp:39-41.
MakeErrorCode(e) == ErrorCode("Ghoti.io Util", e)
\* The enumerators whose value is 0.
ZeroCodes == {"0", "NOERROR"}

\* ErrorOr(const T &), errorOr.hpp:28.
ErrorOrOfValue(val) == [alt |-> "T", value |-> val]
\* ErrorOr(const std::error_code &), errorOr.hpp:35.
ErrorOrOfError(ec) == [alt |-> "error_code", ec |-> ec]

\* ErrorOr::operator bool, errorOr.hpp:74-78.
ErrorOrBool(e) == e.alt # "error_code"

\* ErrorOr::error_code(), errorOr.hpp:45-49.
ErrorOrErrorCode(e) == IF e.alt = "error_code" THEN e.ec ELSE NoError

\* ErrorOr::operator*, errorOr.hpp:59-61: std::get<T> throws when the
\* variant holds the error_code.
ErrorOrThrows(e) == e.alt # "T"

\* std::error_code::operator bool: the value is not 0.
ErrorCodeBool(ec) == ec.value \notin ZeroCodes

\* ------------------------------------------ HasParameters, AnyMap: the data
\* The objects: p1 is a HasParam, p2 a HasParamNoDefaults
\* (test-hasParameters.cpp:20-33).
ParamObjs == {"p1", "p2"}
NoObj == "nullptr"
ParamKeys == {"TEST1", "TEST3"}
AnyKeys == {"TEST1", "TEST2", "TEST3"}
\* std::any values, with the type they hold.
StdAny(type, val) == [type |-> type, val |-> val]
AnyValues == {StdAny("uint32_t", "42"), StdAny("string", "howdy")}
\* The type arguments of the typed getters.
Types == {"uint32_t", "string", "bool"}
\* No entry for the key in the unordered_map.
NoValue == StdAny("", "")
\* Frames the stack has room for.
StackFrames == 3

NoCall ==
    [pc |-> "idle", obj |-> NoObj, key |-> "", cur |-> NoObj, depth |-> 0,
     result |-> ErrorOrOfError(NoError)]
NoParamOp == [op |-> "init", obj |-> NoObj, key |-> "", had |-> FALSE]
NoAnyOp ==
    [op |-> "init", change |-> "init", key |-> "", value |-> NoValue,
     prev |-> NoValue, asked |-> "", type |-> "",
     result |-> ErrorOrOfError(NoError)]

\* The ErrorOr<int> objects and the arguments of their constructors.
ErrorOrIds == {1, 2}
IntValues == {-10, 0, 1, 7}
\* T{} for int (errorOr.hpp:21).
DefaultT == 0
ErrorCodes ==
    {NoError, ErrorCode("Ghoti::Test", "NOERROR"),
     ErrorCode("Ghoti::Test", "ERROR1"), ErrorCode("Ghoti::Test", "ERROR2"),
     MakeErrorCode("PARAMETER_NOT_FOUND")}
NotMade == [how |-> "none"]

Init ==
    /\ views = [i \in ViewIds |-> NoView]
    /\ strings = [b \in BufIds |-> <<>>]
    /\ useCount = [b \in BufIds |-> 0]
    /\ fault = FALSE
    /\ last = NoOp
    /\ slices = {}
    /\ steps = 0
    /\ fs = [p \in Paths |-> NoData]
    /\ files = [f \in FileIds |-> NoFile]
    /\ tempFile = [f \in FileIds |-> NoPath]
    /\ flast = NoFileOp
    /\ parameterValues = [o \in ParamObjs |-> [k \in ParamKeys |-> NoValue]]
    /\ inheritFrom = [o \in ParamObjs |-> NoObj]
    /\ call = NoCall
    /\ plast = NoParamOp
    /\ anyValues = [k \in AnyKeys |-> NoValue]
    /\ alast = NoAnyOp
    /\ errorOrs = [i \in ErrorOrIds |-> NotMade]

\* Every operation is one step of the run.
Tick == steps < MaxSteps /\ steps' = steps + 1

\* ------------------------------------------------------------- operations
\* A new object takes the lowest slot that holds none (slot numbers only
\* name the objects).
IsNewSlot(dst) ==
    /\ ~views[dst].live
    /\ \A i \in ViewIds : ~views[i].live => dst <= i

\* shared_string_view(const char *), (const char *, size_t),
\* (const std::string &): shared_string_view.cpp:15-25.
Construct(dst, s) ==
    /\ ~fault
    /\ Tick
    /\ UNCHANGED <<fileVars, utilVars>>
    /\ IsNewSlot(dst)
    /\ Len(s) <= MaxLen
    /\ LET b == MakeShared IN
       /\ strings' = [strings EXCEPT ![b] = s]
       /\ useCount' = [useCount EXCEPT ![b] = 1]
       /\ views' = [views EXCEPT ![dst] =
                      [live |-> TRUE, target |-> b, start |-> 0, len |-> Len(s)]]
    /\ last' = Op("construct", 0, 0, dst)
    /\ UNCHANGED <<fault, slices>>

\* The implicit copy constructor (the class declares no special members,
\* shared_string_view.hpp:16-173): every member is copied.
Copy(src, dst) ==
    /\ ~fault
    /\ Tick
    /\ UNCHANGED <<fileVars, utilVars>>
    /\ views[src].live
    /\ IsNewSlot(dst)
    /\ views' = [views EXCEPT ![dst] = views[src]]
    /\ useCount' = Acquire(useCount, views[src].target)
    /\ last' = Op("copy", src, 0, dst)
    /\ UNCHANGED <<strings, fault, slices>>

\* Faulty variant, used to test the properties:
\* (the source keeps its shared_ptr, as after a copy)
MovedFromKeepsTarget(v) == v

\* What the implicit move constructor leaves in its source: the shared_ptr
\* is emptied, the two size_t members are copied and keep their values.
MovedFrom(v) == [v EXCEPT !.target = NULL]

\* The implicit move constructor: the shared_ptr is moved, start and len
\* are copied.
Move(src, dst) ==
    /\ ~fault
    /\ Tick
    /\ UNCHANGED <<fileVars, utilVars>>
    /\ views[src].live
    /\ IsNewSlot(dst)
    /\ views' = [views EXCEPT ![dst] = views[src], ![src] = MovedFrom(views[src])]
    /\ last' = Op("move", src, 0, dst)
    /\ UNCHANGED <<strings, useCount, fault, slices>>

\* The implicit destructor: the shared_ptr releases its string.
Destroy(v) ==
    /\ ~fault
    /\ Tick
    /\ UNCHANGED <<fileVars, utilVars>>
    /\ views[v].live
    /\ views' = [views EXCEPT ![v] = NoView]
    /\ LET uc == Release(useCount, views[v].target) IN
       /\ useCount' = uc
       /\ strings' = Reclaim(strings, uc)
       /\ slices' = Dangle(slices, Freed(useCount, uc))
    /\ last' = Op("destroy", v, 0, 0)
    /\ UNCHANGED fault

\* shared_string_view.cpp:40.
SubstrStart(v, offset) == Min(Add(v.start, offset), Add(v.start, v.len))
\* Faulty variant, used to test the properties:
\* (the requested length is not clamped to the parent's end)
SubstrLenUnclamped(v, newStart, length) == length

\* shared_string_view.cpp:41.
SubstrLen(v, newStart, length) ==
    Min(Sub(v.len, Sub(newStart, v.start)), length)

\* Faulty variant, used to test the properties:
\* (the result gets a string of its own, holding a copy of its bytes)
SubstrCopies(src, dst, offset, length) ==
    /\ ~fault
    /\ Tick
    /\ UNCHANGED <<fileVars, utilVars>>
    /\ views[src].live
    /\ IsNewSlot(dst)
    /\ LET v == views[src]
           newStart == SubstrStart(v, offset)
           newLen == SubstrLen(v, newStart, length)
           nb == MakeShared
       IN /\ views' = [views EXCEPT ![dst] =
                         [live |-> TRUE, target |-> nb, start |-> 0,
                          len |-> newLen]]
          /\ strings' = [strings EXCEPT ![nb] =
                            IF v.target = NULL THEN <<>>
                            ELSE StrSubstr(strings[v.target], newStart, newLen)]
          /\ useCount' = [useCount EXCEPT ![nb] = 1]
    /\ last' = Op("substr", src, 0, dst)
    /\ UNCHANGED <<fault, slices>>

\* substr(offset, length), shared_string_view.cpp:38-43.
Substr(src, dst, offset, length) ==
    /\ ~fault
    /\ Tick
    /\ UNCHANGED <<fileVars, utilVars>>
    /\ views[src].live
    /\ IsNewSlot(dst)
    /\ LET v == views[src]
           newStart == SubstrStart(v, offset)
       IN /\ views' = [views EXCEPT ![dst] =
                         [v EXCEPT !.start = newStart,
                                   !.len = SubstrLen(v, newStart, length)]]
          /\ useCount' = Acquire(useCount, v.target)
    /\ last' = Op("substr", src, 0, dst)
    /\ UNCHANGED <<strings, fault, slices>>

\* operator+= and operator+ dereference target of both operands without a
\* test (shared_string_view.cpp:64-77, 106-111).
DerefsNull(a, b) == views[a].target = NULL \/ views[b].target = NULL

\* std::out_of_range leaves operator+= / operator+ when a substr call gets
\* pos > size().
SliceThrows(v) == ~IsWhole(v) /\ SubstrThrows(strings[v.target], v.start)

\* Faulty variant, used to test the properties:
\* (the else branch forgets to cut the view out of the old string)
CowBytesWholeTarget(v, rhsBytes) == strings[v.target] \o rhsBytes

\* The string operator+= builds in its else branch,
\* shared_string_view.cpp:74-77.
CowBytes(v, rhsBytes) ==
    StrSubstr(strings[v.target], v.start, v.len) \o rhsBytes

\* Faulty variant, used to test the properties:
\* (the view keeps its start in the new string)
CowViewKeepsStart(v, nb, rhsLen) ==
    [v EXCEPT !.target = nb, !.len = Add(v.len, rhsLen)]

\* The view after the else branch of operator+=,
\* shared_string_view.cpp:74-80: the new string, start 0, len grown.
CowView(v, nb, rhsLen) ==
    [v EXCEPT !.target = nb, !.start = 0, !.len = Add(v.len, rhsLen)]

\* Faulty variant, used to test the properties:
\* (no copy-on-write; the bytes are written into the shared string
\* right after the view's own end)
AppendToOverwrite(a, rhsBytes, rhsLen) ==
    LET v == views[a]
        t == v.target
    IN /\ strings' = [strings EXCEPT ![t] =
                         SubSeq(@, 1, Add(v.start, v.len)) \o rhsBytes]
       /\ views' = [views EXCEPT ![a].len = Add(v.len, rhsLen)]
       /\ UNCHANGED useCount

\* The two branches of operator+=, shared_string_view.cpp:64-80 and
\* 85-96, for the bytes rhsBytes of length rhsLen.
AppendTo(a, rhsBytes, rhsLen) ==
    LET v == views[a]
        t == v.target
    IN IF IsWhole(v)
       THEN /\ strings' = [strings EXCEPT ![t] = @ \o rhsBytes]
            /\ views' = [views EXCEPT ![a].len = Add(v.len, rhsLen)]
            /\ UNCHANGED useCount
       ELSE LET nb == MakeShared
                uc == Release([useCount EXCEPT ![nb] = 1], t)
            IN /\ strings' = Reclaim([strings EXCEPT ![nb] = CowBytes(v, rhsBytes)], uc)
               /\ useCount' = uc
               /\ views' = [views EXCEPT ![a] = CowView(v, nb, rhsLen)]

\* What operator+= on view v does to the string_views handed out.  In
\* place (shared_string_view.cpp:67, 88) std::string::operator+= grows
\* the string: whether it moves the bytes to new storage (relocates)
\* depends on the capacity the library gave the string.  Otherwise
\* (shared_string_view.cpp:74, 93) the view gives up its old string, which
\* is freed if the view was its last owner.
AppendSlices(v, relocates) ==
    IF IsWhole(v)
    THEN IF relocates THEN Dangle(slices, {v.target}) ELSE slices
    ELSE Dangle(slices, IF useCount[v.target] = 1 THEN {v.target} ELSE {})

\* operator+=(const shared_string_view &), shared_string_view.cpp:63-82.
PlusEqual(a, b, relocates) ==
    /\ ~fault
    /\ Tick
    /\ UNCHANGED <<fileVars, utilVars>>
    /\ views[a].live
    /\ views[b].live
    /\ IF DerefsNull(a, b) \/ SliceThrows(views[a]) \/ SliceThrows(views[b])
       THEN /\ fault' = TRUE
            /\ last' = Op("pluseq", a, b, 0)
            /\ UNCHANGED <<views, strings, useCount, slices>>
       ELSE /\ Len(StringView(views[a])) + Len(Bytes(views[b])) <= MaxLen
            /\ AppendTo(a, Bytes(views[b]), Length(views[b]))
            /\ last' = [Op("pluseq", a, b, 0) EXCEPT !.inplace = IsWhole(views[a])]
            /\ slices' = AppendSlices(views[a], relocates)
            /\ UNCHANGED fault

\* operator+=(char), shared_string_view.cpp:84-98.
PlusEqualChar(a, c, relocates) ==
    /\ ~fault
    /\ Tick
    /\ UNCHANGED <<fileVars, utilVars>>
    /\ views[a].live
    /\ IF views[a].target = NULL \/ SliceThrows(views[a])
       THEN /\ fault' = TRUE
            /\ last' = Op("pluseqchar", a, 0, 0)
            /\ UNCHANGED <<views, strings, useCount, slices>>
       ELSE /\ Len(StringView(views[a])) + 1 <= MaxLen
            /\ AppendTo(a, <<c>>, 1)
            /\ last' = [Op("pluseqchar", a, 0, 0) EXCEPT !.inplace = IsWhole(views[a])]
            /\ slices' = AppendSlices(views[a], relocates)
            /\ UNCHANGED fault

\* Faulty variant, used to test the properties:
\* (the left operand's whole string is taken, whatever the view)
PlusBytesLhsWhole(a, b) == strings[views[a].target] \o Bytes(views[b])

\* The string operator+ builds, shared_string_view.cpp:105-112.
PlusBytes(a, b) == Bytes(views[a]) \o Bytes(views[b])

\* Faulty variant, used to test the properties:
\* (the new string is not stored in the result)
PlusResultNoTarget(nb, s) ==
    [live |-> TRUE, target |-> NULL, start |-> 0, len |-> Len(s)]

\* The view operator+ returns: next{false} with the new string as target
\* and its length as len, shared_string_view.cpp:101-115.
PlusResult(nb, s) ==
    [live |-> TRUE, target |-> nb, start |-> 0, len |-> Len(s)]

\* operator+, shared_string_view.cpp:100-116.
Plus(a, b, dst) ==
    /\ ~fault
    /\ Tick
    /\ UNCHANGED <<fileVars, utilVars>>
    /\ views[a].live
    /\ views[b].live
    /\ IsNewSlot(dst)
    /\ IF DerefsNull(a, b) \/ SliceThrows(views[a]) \/ SliceThrows(views[b])
       THEN /\ fault' = TRUE
            /\ last' = Op("plus", a, b, 0)
            /\ UNCHANGED <<views, strings, useCount, slices>>
       ELSE LET s == PlusBytes(a, b)
                nb == MakeShared
            IN /\ Len(s) <= MaxLen
               /\ strings' = [strings EXCEPT ![nb] = s]
               /\ useCount' = [useCount EXCEPT ![nb] = 1]
               /\ views' = [views EXCEPT ![dst] = PlusResult(nb, s)]
               /\ last' = Op("plus", a, b, dst)
               /\ UNCHANGED <<fault, slices>>

Next ==
    \/ \E dst \in ViewIds, s \in InitStrs : Construct(dst, s)
    \/ \E src, dst \in ViewIds : Copy(src, dst)
    \/ \E src, dst \in ViewIds : Move(src, dst)
    \/ \E v \in ViewIds : Destroy(v)
    \/ \E src, dst \in ViewIds, offset \in Offsets, length \in Lengths :
          Substr(src, dst, offset, length)
    \/ \E a, b \in ViewIds, relocates \in BOOLEAN : PlusEqual(a, b, relocates)
    \/ \E a \in ViewIds, c \in Chars, relocates \in BOOLEAN :
          PlusEqualChar(a, c, relocates)
    \/ \E a, b, dst \in ViewIds : Plus(a, b, dst)

Spec == Init /\ [][Next]_vars

\* Bound of the runs with string_views: how many are handed out.
MaxSlices == 2

\* operator std::string_view, shared_string_view.cpp:27-32, with its
\* result kept by the caller: a pointer into the string's storage at
\* start and a length, or ""sv for a view without a string.
TakeSlice(v) ==
    /\ ~fault
    /\ Tick
    /\ views[v].live
    /\ slices' = slices \cup
                    {[buf |-> views[v].target, start |-> views[v].start,
                      len |-> Len(StringView(views[v])),
                      bytes |-> StringView(views[v]), valid |-> TRUE]}
    /\ Cardinality(slices') <= MaxSlices
    /\ last' = Op("slice", v, 0, 0)
    /\ UNCHANGED <<views, strings, useCount, fault>>
    /\ UNCHANGED <<fileVars, utilVars>>

SliceNext ==
    \/ Next
    \/ \E v \in ViewIds : TakeSlice(v)

SliceSpec == Init /\ [][SliceNext]_vars

\* ---------------------------------------------------- File: the filesystem
\* std::filesystem::exists: false for the empty path and for a path whose
\* directory is missing.
Exists(fsys, p) == p \in Paths /\ fsys[p].exists

\* Faulty variant, used to test the properties:
\* (nothing is removed)
FsRemoveNothing(fsys, p) == fsys

\* std::filesystem::remove: removes the file if there is one.
FsRemove(fsys, p) == IF Exists(fsys, p) THEN [fsys EXCEPT ![p] = NoData] ELSE fsys

\* std::filesystem::rename(old, new, ec): fails when old does not exist
\* or the directory of new is missing.
FsRenameError(fsys, old, new) ==
    IF ~Exists(fsys, old) \/ new \notin Paths THEN "ENOENT" ELSE "ok"

\* std::filesystem::rename(old, new, ec): the file moves to new and
\* replaces a file that is there; nothing happens on an error or when old
\* and new are the same file.
FsRename(fsys, old, new) ==
    IF FsRenameError(fsys, old, new) # "ok" \/ old = new
    THEN fsys
    ELSE [fsys EXCEPT ![new] = fsys[old], ![old] = NoData]

\* The objects owning a temp file at one of the paths in gone lose it.
Forget(t, gone) ==
    [g \in FileIds |-> IF t[g] \in gone THEN NoPath ELSE t[g]]

\* ------------------------------------------------------ File: the actions
\* Objects are made in the lowest free slot.
IsNewFile(dst) ==
    /\ ~files[dst].live
    /\ \A g \in FileIds : g < dst => files[g].live

\* File() and File(path), file.cpp:16-18.
FileCtor(dst, path) ==
    /\ IsNewFile(dst)
    /\ Tick
    /\ files' = [files EXCEPT ![dst] =
                    [live |-> TRUE, path |-> path, isTemp |-> FALSE]]
    /\ tempFile' = [tempFile EXCEPT ![dst] = NoPath]
    /\ flast' = FileOp("ctor", dst, 0, NoPath, "ok")
    /\ UNCHANGED fs
    /\ UNCHANGED <<viewVars, utilVars>>

\* File::createTemp, file.cpp:73-88.  mkstemp creates an empty file under
\* a name p that is not in use, or fails (p = NoPath) and File{} is returned.
CreateTemp(dst, p) ==
    /\ IsNewFile(dst)
    /\ p # NoPath => ~Exists(fs, p)
    /\ Tick
    /\ IF p # NoPath
       THEN /\ fs' = [fs EXCEPT ![p] = Data(<<>>)]
            /\ files' = [files EXCEPT ![dst] =
                            [live |-> TRUE, path |-> p, isTemp |-> TRUE]]
       ELSE /\ fs' = fs
            /\ files' = [files EXCEPT ![dst] =
                            [live |-> TRUE, path |-> NoPath, isTemp |-> FALSE]]
    /\ tempFile' = [tempFile EXCEPT ![dst] = p]
    /\ flast' = FileOp("createTemp", dst, 0, NoPath, "ok")
    /\ UNCHANGED <<viewVars, utilVars>>

\* The path a std::string is left with when it has been moved from.
MovedFromPath(path) == NoPath

\* File(File && source), file.cpp:20-26.
FileMoveCtor(source, dst) ==
    /\ files[source].live
    /\ IsNewFile(dst)
    /\ Tick
    /\ files' = [files EXCEPT
                    ![dst] = [live |-> TRUE, path |-> files[source].path,
                              isTemp |-> files[source].isTemp],
                    ![source] = [live |-> TRUE,
                                 path |-> MovedFromPath(files[source].path),
                                 isTemp |-> FALSE]]
    /\ tempFile' = [tempFile EXCEPT ![dst] = tempFile[source],
                                    ![source] = NoPath]
    /\ flast' = FileOp("moveCtor", source, dst, NoPath, "ok")
    /\ UNCHANGED fs
    /\ UNCHANGED <<viewVars, utilVars>>

\* File::operator=(File && source), file.cpp:28-32: the two objects swap
\* path and isTemp.
FileMoveAssign(dst, source) ==
    /\ files[dst].live
    /\ files[source].live
    /\ dst # source
    /\ Tick
    /\ files' = [files EXCEPT ![dst] = files[source], ![source] = files[dst]]
    /\ tempFile' = [tempFile EXCEPT ![dst] = tempFile[source],
                                    ![source] = tempFile[dst]]
    /\ flast' = FileOp("moveAssign", dst, source, NoPath, "ok")
    /\ UNCHANGED fs
    /\ UNCHANGED <<viewVars, utilVars>>

\* File::~File, file.cpp:34-38.
FileDtor(f) ==
    /\ files[f].live
    /\ Tick
    /\ fs' = IF files[f].isTemp THEN FsRemove(fs, files[f].path) ELSE fs
    /\ files' = [files EXCEPT ![f] = NoFile]
    /\ tempFile' =
          [Forget(tempFile,
                  IF files[f].isTemp /\ Exists(fs, files[f].path)
                  THEN {files[f].path} ELSE {})
           EXCEPT ![f] = NoPath]
    /\ flast' = FileOp("dtor", f, 0, NoPath, "ok")
    /\ UNCHANGED <<viewVars, utilVars>>

\* Faulty variant, used to test the properties:
\* (rename leaves the temp flag as it was)
RenamedIsTempKept(wasTemp) == wasTemp

\* isTemp after the filesystem rename, file.cpp:54.
RenamedIsTemp(wasTemp) == FALSE

\* Faulty variant, used to test the properties:
\* (the object follows the file to its new path)
RenamedPathFollows(path, destinationPath) == destinationPath

\* The path member after the filesystem rename, file.cpp:52-55: rename
\* does not assign it.
RenamedPath(path, destinationPath) == path

\* File::getPath, file.cpp:104-106.
GetPath(file) == file.path

\* Faulty variant, used to test the properties:
\* (the destination is never looked at)
TargetInUseNever(fsys, destinationPath) == FALSE

\* The check rename makes before it renames, file.cpp:48-50.
TargetInUse(fsys, destinationPath) == Exists(fsys, destinationPath)

\* File::rename, file.cpp:40-56.  intruder: another process creates a file
\* at destinationPath between the exists check and the rename.
FileRename(f, destinationPath, intruder) ==
    /\ files[f].live
    /\ intruder => destinationPath \in Paths /\ ~Exists(fs, destinationPath)
    /\ Tick
    /\ IF TargetInUse(fs, destinationPath)
       THEN /\ flast' = FileOp("rename", f, 0, destinationPath,
                               "FILE_EXISTS_AT_TARGET_PATH")
            /\ UNCHANGED <<fs, files, tempFile>>
       ELSE LET old == files[f].path
                mid == IF intruder
                       THEN [fs EXCEPT ![destinationPath] = Data(IntruderBytes)]
                       ELSE fs
                ec == FsRenameError(mid, old, destinationPath)
            IN /\ fs' = FsRename(mid, old, destinationPath)
               /\ files' = [files EXCEPT
                               ![f].path = RenamedPath(@, destinationPath),
                               ![f].isTemp = RenamedIsTemp(files[f].isTemp)]
               /\ tempFile' =
                     Forget(tempFile,
                            IF ec = "ok" /\ old # destinationPath
                            THEN {old, destinationPath} ELSE {})
               /\ flast' = FileOp("rename", f, 0, destinationPath, ec)
    /\ UNCHANGED <<viewVars, utilVars>>

\* File::remove, file.cpp:58-71.
FileRemove(f) ==
    /\ files[f].live
    /\ Tick
    /\ fs' = FsRemove(fs, files[f].path)
    /\ files' = [files EXCEPT ![f].isTemp = FALSE]
    /\ tempFile' = Forget(tempFile,
                          IF Exists(fs, files[f].path)
                          THEN {files[f].path} ELSE {})
    /\ flast' = FileOp("remove", f, 0, NoPath,
                       IF Exists(fs, files[f].path)
                       THEN "ok" ELSE "FILE_DOES_NOT_EXIST")
    /\ UNCHANGED <<viewVars, utilVars>>

\* Faulty variant, used to test the properties:
\* (the file is emptied when it is opened for appending)
AppendBytesTrunc(bytes, sv) == sv

\* What a stream opened with ios::app leaves in the file, file.cpp:110-116.
AppendBytes(bytes, sv) == bytes \o sv

\* File::append, file.cpp:108-122: the file is opened for appending, and
\* created if there is none; it cannot be opened at the empty path.
FileAppend(f, sv) ==
    /\ files[f].live
    /\ Tick
    /\ IF files[f].path \in Paths
       THEN /\ Len(fs[files[f].path].bytes) + Len(sv) <= MaxFileLen
            /\ fs' = [fs EXCEPT ![files[f].path] =
                            Data(AppendBytes(@.bytes, sv))]
            /\ flast' = FileOp("append", f, 0, NoPath, "ok")
       ELSE /\ fs' = fs
            /\ flast' = FileOp("append", f, 0, NoPath,
                               "FILE_COULD_NOT_BE_OPENED")
    /\ UNCHANGED <<files, tempFile>>
    /\ UNCHANGED <<viewVars, utilVars>>

\* File::truncate, file.cpp:124-138: as append, but the file is emptied
\* when it is opened.
FileTruncate(f, sv) ==
    /\ files[f].live
    /\ Tick
    /\ IF files[f].path \in Paths
       THEN /\ fs' = [fs EXCEPT ![files[f].path] = Data(sv)]
            /\ flast' = FileOp("truncate", f, 0, NoPath, "ok")
       ELSE /\ fs' = fs
            /\ flast' = FileOp("truncate", f, 0, NoPath,
                               "FILE_COULD_NOT_BE_OPENED")
    /\ UNCHANGED <<files, tempFile>>
    /\ UNCHANGED <<viewVars, utilVars>>

\* std::fstream{path, ios::in | ios::binary}: opening for reading creates
\* nothing and changes nothing.
FsOpenIn(fsys, p) == fsys

\* File::operator string, file.cpp:90-102: the bytes of the file, or the
\* empty string when it cannot be opened.
FileContents(fsys, file) ==
    IF Exists(fsys, file.path) THEN fsys[file.path].bytes ELSE <<>>

\* A program reads the file through object f (operator string).
FileRead(f) ==
    /\ files[f].live
    /\ Tick
    /\ fs' = FsOpenIn(fs, files[f].path)
    /\ flast' = FileOp("read", f, 0, NoPath, "ok")
    /\ UNCHANGED <<files, tempFile>>
    /\ UNCHANGED <<viewVars, utilVars>>

\* File::test, file.cpp:140-151.
FileTest(fsys, file) ==
    IF file.path = NoPath THEN "NO_FILE_PATH_SPECIFIED"
    ELSE IF ~Exists(fsys, file.path) THEN "FILE_DOES_NOT_EXIST"
    ELSE "ok"

FileNext ==
    \/ \E dst \in FileIds, path \in Paths \cup {NoPath} : FileCtor(dst, path)
    \/ \E dst \in FileIds, p \in TmpPaths \cup {NoPath} : CreateTemp(dst, p)
    \/ \E source, dst \in FileIds : FileMoveCtor(source, dst)
    \/ \E dst, source \in FileIds : FileMoveAssign(dst, source)
    \/ \E f \in FileIds : FileDtor(f)
    \/ \E f \in FileIds, dest \in Paths \cup {BadPath}, intruder \in BOOLEAN :
          FileRename(f, dest, intruder)
    \/ \E f \in FileIds : FileRemove(f)
    \/ \E f \in FileIds, sv \in WriteStrs : FileAppend(f, sv)
    \/ \E f \in FileIds, sv \in WriteStrs : FileTruncate(f, sv)
    \/ \E f \in FileIds : FileRead(f)

FileSpec == Init /\ [][FileNext]_vars

\* ------------------------------------------------------- HasParameters
coreVars == <<viewVars, fileVars, steps>>

\* getParameterDefault: HasParam::getParameterDefault for p1
\* (test-hasParameters.cpp:22-30), the base class's for p2
\* (hasParameters.hpp:107-109).
GetParameterDefault(o, k) ==
    IF o = "p1" /\ k = "TEST1"
    THEN ErrorOrOfValue(StdAny("uint32_t", "1"))
    ELSE ErrorOrOfError(MakeErrorCode("PARAMETER_NOT_FOUND"))

\* What one activation of getParameterAny does: it returns a result, or
\* it calls getParameterAny of the object it inherits from.
Return(result) == [done |-> TRUE, result |-> result, next |-> NoObj]
Recurse(o) ==
    [done |-> FALSE, result |-> ErrorOrOfError(NoError), next |-> o]

\* Faulty variant, used to test the properties:
\* (the inherited values are looked up before the object's own default)
GetParameterAnyParentFirst(vals, inh, o, k) ==
    IF vals[o][k] # NoValue
    THEN Return(ErrorOrOfValue(vals[o][k]))
    ELSE IF inh[o] # NoObj THEN Recurse(inh[o])
    ELSE Return(GetParameterDefault(o, k))

\* HasParameters::getParameterAny, hasParameters.hpp:118-132.
GetParameterAny(vals, inh, o, k) ==
    IF vals[o][k] # NoValue
    THEN Return(ErrorOrOfValue(vals[o][k]))
    ELSE LET localDefault == GetParameterDefault(o, k)
         IN IF ErrorOrBool(localDefault) \/ inh[o] = NoObj
            THEN Return(localDefault)
            ELSE Recurse(inh[o])

\* Faulty variant, used to test the properties:
\* (the stored type is not compared with U)
GetParameterAnyType(val, U) ==
    IF ErrorOrBool(val)
    THEN ErrorOrOfValue(val.value)
    ELSE ErrorOrOfError(MakeErrorCode("PARAMETER_HAS_WRONG_TYPE"))

\* HasParameters::getParameter<U>, hasParameters.hpp:145-151, applied to
\* the result val of getParameterAny.
GetParameter(val, U) ==
    IF ErrorOrBool(val) /\ val.value.type = U
    THEN ErrorOrOfValue(val.value)
    ELSE ErrorOrOfError(MakeErrorCode("PARAMETER_HAS_WRONG_TYPE"))

\* No call of getParameterAny is in progress, and the process is alive.
Ready == call.pc \in {"idle", "returned"}

\* HasParameters::setParameter, hasParameters.hpp:160-163.
SetParameter(o, k, value) ==
    /\ Ready
    /\ parameterValues' = [parameterValues EXCEPT ![o][k] = value]
    /\ plast' = [op |-> "set", obj |-> o, key |-> k,
                 had |-> parameterValues[o][k] # NoValue]
    /\ call' = NoCall
    /\ UNCHANGED inheritFrom
    /\ UNCHANGED <<coreVars, anyMapVars, errorOrVars>>

\* Faulty variant, used to test the properties:
\* (every entry is erased)
EraseAll(map, k) == [j \in DOMAIN map |-> NoValue]

\* std::unordered_map::erase(key).
Erase(map, k) == [map EXCEPT ![k] = NoValue]

\* HasParameters::clearParameter, hasParameters.hpp:170-175.
ClearParameter(o, k) ==
    /\ Ready
    /\ parameterValues' =
          IF parameterValues[o][k] # NoValue
          THEN [parameterValues EXCEPT ![o] = Erase(@, k)]
          ELSE parameterValues
    /\ plast' = [op |-> "clear", obj |-> o, key |-> k,
                 had |-> parameterValues[o][k] # NoValue]
    /\ call' = NoCall
    /\ UNCHANGED inheritFrom
    /\ UNCHANGED <<coreVars, anyMapVars, errorOrVars>>

\* HasParameters::setInheritFrom, hasParameters.hpp:186-188.
SetInheritFrom(o, parent) ==
    /\ Ready
    /\ inheritFrom' = [inheritFrom EXCEPT ![o] = parent]
    /\ plast' = [op |-> "inherit", obj |-> o, key |-> "", had |-> FALSE]
    /\ call' = NoCall
    /\ UNCHANGED parameterValues
    /\ UNCHANGED <<coreVars, anyMapVars, errorOrVars>>

\* A program calls o.getParameterAny(k): the first activation is entered.
GetParameterAnyCall(o, k) ==
    /\ Ready
    /\ call' = [pc |-> "running", obj |-> o, key |-> k, cur |-> o,
                depth |-> 1, result |-> ErrorOrOfError(NoError)]
    /\ UNCHANGED <<parameterValues, inheritFrom, plast>>
    /\ UNCHANGED <<coreVars, anyMapVars, errorOrVars>>

\* The innermost activation of getParameterAny runs: it returns, and its
\* value is returned by every activation below it, or it calls the
\* inherited object's getParameterAny, which takes a new stack frame; with
\* no room left for the frame the process dies.
GetParameterAnyStep ==
    /\ call.pc = "running"
    /\ LET r == GetParameterAny(parameterValues, inheritFrom, call.cur,
                                call.key)
       IN call' = IF r.done
                  THEN [call EXCEPT !.pc = "returned", !.result = r.result,
                                    !.cur = NoObj, !.depth = 0]
                  ELSE IF call.depth < StackFrames
                  THEN [call EXCEPT !.cur = r.next, !.depth = @ + 1]
                  ELSE [call EXCEPT !.pc = "overflow"]
    /\ UNCHANGED <<parameterValues, inheritFrom, plast>>
    /\ UNCHANGED <<coreVars, anyMapVars, errorOrVars>>

ParamNext ==
    \/ \E o \in ParamObjs, k \in ParamKeys, value \in AnyValues :
          SetParameter(o, k, value)
    \/ \E o \in ParamObjs, k \in ParamKeys : ClearParameter(o, k)
    \/ \E o \in ParamObjs, parent \in ParamObjs \cup {NoObj} :
          SetInheritFrom(o, parent)
    \/ \E o \in ParamObjs, k \in ParamKeys : GetParameterAnyCall(o, k)
    \/ GetParameterAnyStep

ParamSpec == Init /\ [][ParamNext]_vars

\* ------------------------------------------------------------------ AnyMap
\* unordered_map::contains, as used by getAny and clear.
Contains(map, key) == map[key] # NoValue

\* Faulty variant, used to test the properties:
\* (getAny never reports a missing key)
AnyGetAnyFound(vals, key) == ErrorOrOfValue(vals[key])

\* AnyMap::getAny, anyMap.hpp:75-83.
AnyGetAny(vals, key) ==
    IF Contains(vals, key)
    THEN ErrorOrOfValue(vals[key])
    ELSE ErrorOrOfError(MakeErrorCode("ANYMAP_KEY_NOT_FOUND"))

\* AnyMap::get<U>, anyMap.hpp:95-104.
AnyGet(vals, key, U) ==
    LET val == AnyGetAny(vals, key)
    IN IF ErrorOrBool(val) /\ val.value.type = U
       THEN ErrorOrOfValue(val.value)
       ELSE ErrorOrOfError(MakeErrorCode("ANYMAP_VALUE_HAS_WRONG_TYPE"))

\* AnyMap::set, anyMap.hpp:113-116.
AnyMapSet(key, value) ==
    /\ anyValues' = [anyValues EXCEPT ![key] = value]
    /\ alast' = [alast EXCEPT !.op = "set", !.change = "set", !.key = key,
                              !.value = value, !.prev = anyValues[key]]
    /\ UNCHANGED <<coreVars, paramVars, errorOrVars>>

\* AnyMap::clear, anyMap.hpp:123-128.
AnyMapClear(key) ==
    /\ anyValues' = IF Contains(anyValues, key)
                    THEN Erase(anyValues, key)
                    ELSE anyValues
    /\ alast' = [alast EXCEPT !.op = "clear", !.change = "clear",
                              !.key = key, !.value = NoValue,
                              !.prev = anyValues[key]]
    /\ UNCHANGED <<coreVars, paramVars, errorOrVars>>

\* A call of getAny(key): the map is not changed.
AnyMapGetAny(key) ==
    /\ alast' = [alast EXCEPT !.op = "getAny", !.asked = key, !.type = "",
                              !.result = AnyGetAny(anyValues, key)]
    /\ UNCHANGED <<anyValues, coreVars, paramVars, errorOrVars>>

\* A call of get<U>(key): the map is not changed.
AnyMapGet(key, U) ==
    /\ alast' = [alast EXCEPT !.op = "get", !.asked = key, !.type = U,
                              !.result = AnyGet(anyValues, key, U)]
    /\ UNCHANGED <<anyValues, coreVars, paramVars, errorOrVars>>

AnyMapNext ==
    \/ \E key \in AnyKeys, value \in AnyValues : AnyMapSet(key, value)
    \/ \E key \in AnyKeys : AnyMapClear(key)
    \/ \E key \in AnyKeys : AnyMapGetAny(key)
    \/ \E key \in AnyKeys, U \in Types : AnyMapGet(key, U)

AnyMapSpec == Init /\ [][AnyMapNext]_vars

\* ----------------------------------------------------------------- ErrorOr
\* ErrorOr(), errorOr.hpp:21.
ErrorOrDefault(i) ==
    /\ errorOrs' = [errorOrs EXCEPT
                       ![i] = [how |-> "default",
                               obj |-> ErrorOrOfValue(DefaultT)]]
    /\ UNCHANGED <<coreVars, paramVars, anyMapVars>>

\* ErrorOr(const T &), errorOr.hpp:28.
ErrorOrFromValue(i, val) ==
    /\ errorOrs' = [errorOrs EXCEPT
                       ![i] = [how |-> "value", val |-> val,
                               obj |-> ErrorOrOfValue(val)]]
    /\ UNCHANGED <<coreVars, paramVars, anyMapVars>>

\* ErrorOr(const std::error_code &), errorOr.hpp:35.
ErrorOrFromError(i, ec) ==
    /\ errorOrs' = [errorOrs EXCEPT
                       ![i] = [how |-> "error", ec |-> ec,
                               obj |-> ErrorOrOfError(ec)]]
    /\ UNCHANGED <<coreVars, paramVars, anyMapVars>>

ErrorOrNext ==
    \/ \E i \in ErrorOrIds : ErrorOrDefault(i)
    \/ \E i \in ErrorOrIds, val \in IntValues : ErrorOrFromValue(i, val)
    \/ \E i \in ErrorOrIds, ec \in ErrorCodes : ErrorOrFromError(i, ec)

ErrorOrSpec == Init /\ [][ErrorOrNext]_vars

\* ------------------------------------------------------------- properties
\* The bytes buffer[start .. start+len) seen through view object i, as far
\* as the buffer has them (no bytes for a view without a buffer).
Content(i) ==
    IF views[i].target = NULL
    THEN <<>>
    ELSE SubSeq(strings[views[i].target], views[i].start + 1,
                Min(views[i].start + views[i].len,
                    Len(strings[views[i].target])))

\* The same bytes in the state after the transition.
ContentNext(i) ==
    IF views'[i].target = NULL
    THEN <<>>
    ELSE SubSeq(strings'[views'[i].target], views'[i].start + 1,
                Min(views'[i].start + views'[i].len,
                    Len(strings'[views'[i].target])))

\* View object i covers its whole buffer.
WholeBuffer(i) ==
    /\ views[i].start = 0
    /\ views[i].len = Len(strings[views[i].target])

\* The transition is a completed operator+= (either overload).
AppendDone == last'.op \in {"pluseq", "pluseqchar"} /\ ~fault'
\* The transition is a completed operator+=(const shared_string_view &).
AppendViewDone == last'.op = "pluseq" /\ ~fault'

\* The bytes the operator+= of this transition appended.
Appended ==
    IF last'.op = "pluseq"
    THEN Content(last'.rhs)
    ELSE SubSeq(ContentNext(last'.self), views[last'.self].len + 1,
                views[last'.self].len + 1)

\* C1: the bytes seen through a view change only when += is applied to
\* that view or when that view is moved from; no operation on another view,
\* also one sharing the buffer, changes them.
C1_ContentChangesOnlyByOwnAppendOrMove ==
    [][\A i \in ViewIds :
         (views[i].live /\ views'[i].live /\ ContentNext(i) # Content(i))
         => \/ last'.op \in {"pluseq", "pluseqchar"} /\ last'.self = i
            \/ last'.op = "move" /\ last'.self = i]_vars

\* C1 witness: an in-place += through one view has grown a buffer that
\* another live view shares.
C1_Witness ==
    /\ last.op = "pluseq"
    /\ last.inplace
    /\ ~fault
    /\ \E i \in ViewIds :
         /\ i # last.self
         /\ views[i].live
         /\ views[i].target = views[last.self].target
         /\ views[i].len > 0
         /\ views[last.self].len > views[i].len

C4_AppendConcatenates ==
    [][AppendViewDone
       => LET a == last'.self
              b == last'.rhs
          IN /\ ContentNext(a) = Content(a) \o Content(b)
             /\ views'[a].len = views[a].len + views[b].len
             /\ Len(ContentNext(a)) = views'[a].len]_vars

\* C4 witness: a whole-buffer view has been appended in place with a
\* non-empty strict sub-view of its own buffer that starts after byte 0.
C4_Witness ==
    /\ last.op = "pluseq"
    /\ last.inplace
    /\ ~fault
    /\ last.rhs # last.self
    /\ views[last.rhs].target = views[last.self].target
    /\ views[last.rhs].start > 0
    /\ views[last.rhs].len > 0

\* C5: operator+ changes no view and no existing buffer, whole-buffer left
\* operand or not; its result is a whole-buffer view (start = 0, len =
\* buffer size) of a buffer that was not allocated before, that no other
\* view references, and that holds the left slice followed by the right.
C5_PlusIsPure ==
    [][(last'.op = "plus" /\ ~fault')
       => LET a == last'.self
              b == last'.rhs
              d == last'.dst
              nt == views'[d].target
          IN /\ \A i \in ViewIds \ {d} : views'[i] = views[i]
             /\ \A x \in BufIds : useCount[x] > 0 =>
                    /\ strings'[x] = strings[x]
                    /\ useCount'[x] = useCount[x]
             /\ ~views[d].live
             /\ views'[d].live
             /\ nt # NULL
             /\ useCount[nt] = 0
             /\ useCount'[nt] = 1
             /\ \A i \in ViewIds \ {d} : views'[i].target # nt
             /\ views'[d].start = 0
             /\ views'[d].len = Len(strings'[nt])
             /\ strings'[nt] = Content(a) \o Content(b)]_vars

\* C5 witness: operator+ has been applied to a left operand that is a
\* non-empty strict sub-view with start > 0 and to a different right
\* operand.
C5_Witness ==
    /\ last.op = "plus"
    /\ ~fault
    /\ last.self # last.rhs
    /\ views[last.self].start > 0
    /\ views[last.self].len > 0
    /\ views[last.dst].len > views[last.self].len

\* C6: every view that holds a buffer stays inside it:
\* start + len <= buffer size.
C6_ViewWithinBuffer ==
    \A i \in ViewIds :
        (views[i].live /\ views[i].target # NULL)
        => views[i].start + views[i].len <= Len(strings[views[i].target])

\* C6 witness: the buffer of a sub-view with start > 0 has been grown in
\* place through another view.
C6_Witness ==
    /\ last.op \in {"pluseq", "pluseqchar"}
    /\ last.inplace
    /\ ~fault
    /\ \E i \in ViewIds :
         /\ i # last.self
         /\ views[i].live
         /\ views[i].target = views[last.self].target
         /\ views[i].start > 0
         /\ views[i].start + views[i].len < Len(strings[views[i].target])

\* C7: every view that holds no buffer has start = 0 and len = 0, so its
\* length() is 0.
C7_NullViewIsZero ==
    \A i \in ViewIds :
        (views[i].live /\ views[i].target = NULL)
        => /\ views[i].start = 0
           /\ views[i].len = 0
           /\ Length(views[i]) = 0

\* C8: a move gives the destination the source's former buffer reference,
\* start and len (so the source's former content), leaves the source
\* without a buffer reference, and creates, copies or destroys no buffer.
C8_MoveTransfersOwnership ==
    [][last'.op = "move"
       => LET s == last'.self
              d == last'.dst
          IN /\ ~views[d].live
             /\ views'[d].live
             /\ views'[d].target = views[s].target
             /\ views'[d].start = views[s].start
             /\ views'[d].len = views[s].len
             /\ ContentNext(d) = Content(s)
             /\ views'[s].live
             /\ views'[s].target = NULL
             /\ strings' = strings
             /\ useCount' = useCount
             /\ \A i \in ViewIds \ {s, d} : views'[i] = views[i]]_vars

\* C8 witness: a non-empty sub-view with start > 0 has been moved from,
\* while another view still shares the buffer.
C8_Witness ==
    /\ last.op = "move"
    /\ views[last.dst].target # NULL
    /\ views[last.dst].start > 0
    /\ views[last.dst].len > 0
    /\ useCount[views[last.dst].target] = 2

\* C9: for a view with a buffer, substr(offset, length) returns the view
\* with newStart = min(start + offset, start + len) and
\* newLen = min(len - (newStart - start), length) on the same buffer, and
\* its range lies inside the parent's own range [start, start + len).
C9_SubstrClampsToParent ==
    [][\A src, dst \in ViewIds, offset \in Offsets, length \in Lengths :
         (Substr(src, dst, offset, length) /\ views[src].target # NULL)
         => LET p == views[src]
                r == views'[dst]
                newStart == Min(p.start + offset, p.start + p.len)
            IN /\ r.target = p.target
               /\ r.start = newStart
               /\ r.len = Min(p.len - (newStart - p.start), length)
               /\ p.start <= r.start
               /\ r.start + r.len <= p.start + p.len]_vars

\* C10: substr never faults, and for every offset >= len, up to the
\* largest value of the machine word, it yields an empty view (len = 0) at
\* the parent's end (start + len).
C10_SubstrOutOfRangeIsEmpty ==
    [][\A src, dst \in ViewIds, offset \in Offsets, length \in Lengths :
         Substr(src, dst, offset, length)
         => /\ ~fault'
            /\ offset >= views[src].len
               => /\ views'[dst].len = 0
                  /\ views'[dst].start = views[src].start + views[src].len]_vars

\* The live view objects, and those of them that hold a buffer.
Live == {i \in ViewIds : views[i].live}
WithBuffer == {i \in Live : views[i].target # NULL}

\* Byte number k (from 1) of the range of view object i in its buffer.
ByteAt(i, k) == strings[views[i].target][views[i].start + k]

\* C11: for every view with a buffer and every pos < len, operator[](pos)
\* is the byte buffer[start + pos], the pos-th byte of the view's content.
C11_IndexIsRelativeToView ==
    \A i \in WithBuffer :
        \A pos \in 0 .. views[i].len - 1 :
            Index(views[i], pos) = ByteAt(i, pos + 1)

\* The two slices have the same length and the same bytes.
SameBytes(i, j) ==
    /\ views[i].len = views[j].len
    /\ \A k \in 1 .. views[i].len : ByteAt(i, k) = ByteAt(j, k)

\* C12: operator== is true for two views without a buffer, false when
\* exactly one has a buffer (also one with empty content), and for two views
\* with a buffer true exactly when the slices have the same length and the
\* same bytes, whatever the buffers, starts and buffer sizes.
C12_EqualityByContent ==
    \A i, j \in Live :
        ViewEquals(views[i], views[j]) =
            IF i \notin WithBuffer /\ j \notin WithBuffer THEN TRUE
            ELSE IF i \notin WithBuffer \/ j \notin WithBuffer THEN FALSE
            ELSE SameBytes(i, j)

\* C12 witness: two non-empty views of buffers of different sizes, at
\* different starts, compare equal.
C12_Witness ==
    \E i, j \in WithBuffer :
        /\ views[i].target # views[j].target
        /\ views[i].start # views[j].start
        /\ views[i].len > 0
        /\ Len(strings[views[i].target]) # Len(strings[views[j].target])
        /\ ViewEquals(views[i], views[j])

\* Byte c sorts before byte d.
ByteLess(c, d) == c = "a" /\ d = "b"

\* Slice i is lexicographically smaller than slice j: after a common
\* prefix of k bytes, i ends and j goes on, or i has the smaller byte.
LexLess(i, j) ==
    \E k \in 0 .. Min(views[i].len, views[j].len) :
        /\ \A m \in 1 .. k : ByteAt(i, m) = ByteAt(j, m)
        /\ \/ k = views[i].len /\ k < views[j].len
           \/ /\ k < views[i].len
              /\ k < views[j].len
              /\ ByteLess(ByteAt(i, k + 1), ByteAt(j, k + 1))

\* C13: operator<=> is equivalent for two views without a buffer, makes a
\* view with a buffer greater than one without (also when its content is
\* empty), and compares two views with a buffer lexicographically by bytes.
C13_OrderingNullIsMinimum ==
    \A i, j \in Live :
        ViewCompare(views[i], views[j]) =
            IF i \notin WithBuffer /\ j \notin WithBuffer THEN "equivalent"
            ELSE IF j \notin WithBuffer THEN "greater"
            ELSE IF i \notin WithBuffer THEN "less"
            ELSE IF LexLess(i, j) THEN "less"
            ELSE IF LexLess(j, i) THEN "greater"
            ELSE "equivalent"

\* C13 witness: a view without a buffer is live together with a view that
\* has a buffer and empty content and with a view of a greater slice.
C13_Witness ==
    \E i \in Live \ WithBuffer, j, k \in WithBuffer :
        /\ views[j].len = 0
        /\ LexLess(j, k)
        /\ ViewCompare(views[i], views[j]) = "less"
        /\ ViewCompare(views[k], views[j]) = "greater"

\* C14: the hash of a view is the hash of the plain string holding its
\* bytes, so two views that compare equal have equal hashes, whatever their
\* buffers and offsets and also after their buffer has grown.
C14_HashByContent ==
    /\ \A i \in Live : ViewHash(views[i]) = StdHash(Content(i))
    /\ \A i, j \in Live :
          ViewEquals(views[i], views[j])
          => ViewHash(views[i]) = ViewHash(views[j])

\* C14 witness: a non-empty view whose buffer has grown past it compares
\* equal to a view of another buffer.
C14_Witness ==
    \E i, j \in WithBuffer :
        /\ views[i].target # views[j].target
        /\ views[i].len > 0
        /\ views[i].start = 0
        /\ Len(strings[views[i].target]) > views[i].len
        /\ last.op \in {"pluseq", "pluseqchar"}
        /\ last.inplace
        /\ views[last.self].target = views[i].target
        /\ ViewEquals(views[i], views[j])

\* C15: a buffer exists exactly as long as a view references it: its use
\* count is the number of live views that hold it (a copy or substr adds
\* one, a destruction, a move from the view or a copy-on-write += takes
\* one away), and it is reclaimed when, and only when, that number is 0.
C15_BufferLivesWithItsViews ==
    \A b \in BufIds :
        /\ useCount[b] = Cardinality({i \in Live : views[i].target = b})
        /\ (\A i \in Live : views[i].target # b) => strings[b] = <<>>

\* C15 witness: a buffer that two views shared has been given up by both,
\* the second time by a destruction, and no buffer is left.
C15_Witness ==
    /\ last.op = "destroy"
    /\ steps >= 4
    /\ \A b \in BufIds : useCount[b] = 0
    /\ Live = {}

\* C16 (as claimed): no public constructor, substr, += or + returns or
\* leaves behind a view without a buffer.
C16_NoNullFromPublicOperations ==
    [][last'.op \in {"construct", "substr", "pluseq", "pluseqchar", "plus"}
       => \A i \in ViewIds :
            (views'[i].live /\ views'[i].target = NULL)
            => (views[i].live /\ views[i].target = NULL)]_vars

\* C16 (amended): a view without a buffer arises only as the source of a
\* move or as the copy, the move destination or the substr of a view that
\* has no buffer already; constructors, +=, + and substr of a view with a
\* buffer never return or leave behind a view without a buffer.
C16_NullOnlyFromMoveOrNull ==
    [][\A i \in ViewIds :
         (views'[i].live /\ views'[i].target = NULL)
         => \/ views[i].live /\ views[i].target = NULL
            \/ last'.op = "move" /\ last'.self = i
            \/ /\ last'.op \in {"copy", "move", "substr"}
               /\ last'.dst = i
               /\ views[last'.self].target = NULL]_vars

\* C16 witness: substr has been applied to a view without a buffer and
\* has returned a view without a buffer.
C16_Witness ==
    /\ last.op = "substr"
    /\ views[last.self].target = NULL
    /\ views[last.dst].live
    /\ views[last.dst].target = NULL

\* C17: the slice conversion, forward iteration and stream insertion of a
\* view with a buffer give exactly the len bytes buffer[start .. start+len),
\* reverse iteration gives them in reverse order; the slice conversion of a
\* view without a buffer is empty.
C17_SliceIterationStream ==
    /\ \A i \in WithBuffer :
          /\ Len(StringView(views[i])) = views[i].len
          /\ Len(ForwardBytes(views[i])) = views[i].len
          /\ Len(ReverseBytes(views[i])) = views[i].len
          /\ Len(StreamBytes(views[i])) = views[i].len
          /\ \A k \in 1 .. views[i].len :
                /\ StringView(views[i])[k] = ByteAt(i, k)
                /\ ForwardBytes(views[i])[k] = ByteAt(i, k)
                /\ StreamBytes(views[i])[k] = ByteAt(i, k)
                /\ ReverseBytes(views[i])[k] = ByteAt(i, views[i].len + 1 - k)
    /\ \A i \in Live \ WithBuffer : StringView(views[i]) = <<>>

\* C17 witness: a non-empty view with start > 0 is live together with a
\* moved-from view that kept a non-zero len.
C17_Witness ==
    /\ \E i \in WithBuffer : views[i].start > 0 /\ views[i].len > 0
    /\ \E i \in Live \ WithBuffer : views[i].len > 0

\* C18: a file made by createTemp exists as long as the File object owning
\* it lives and is gone once that object has been destroyed, unless it was
\* renamed or removed before; the destructor of any other File object
\* deletes nothing.
C18_TempFileDeletedWithOwner ==
    [][/\ \A f \in FileIds :
            (files'[f].live /\ tempFile'[f] # NoPath)
            => fs'[tempFile'[f]].exists
       /\ \A f \in FileIds :
            (flast'.op = "dtor" /\ flast'.self = f /\ tempFile[f] # NoPath)
            => ~fs'[tempFile[f]].exists
       /\ \A f \in FileIds :
            (flast'.op = "dtor" /\ flast'.self = f /\ tempFile[f] = NoPath
             /\ ~files[f].isTemp)
            => fs' = fs]_vars

\* C19: when rename succeeds on a temp File the object is no longer a temp
\* file and the file is at the destination with the bytes it had; the
\* destruction of the object right after leaves that file there, unchanged.
C19_RenamedTempFileIsKept ==
    [][/\ (flast'.op = "rename" /\ flast'.ec = "ok" /\ flast'.wasTemp)
          => /\ ~files'[flast'.self].isTemp
             /\ fs'[flast'.dest].exists
             /\ (files[flast'.self].path \in Paths
                 /\ fs[files[flast'.self].path].exists)
                => fs'[flast'.dest].bytes = fs[files[flast'.self].path].bytes
       /\ (/\ flast.op = "rename" /\ flast.ec = "ok" /\ flast.wasTemp
           /\ flast'.op = "dtor" /\ flast'.self = flast.self)
          => /\ fs'[flast.dest].exists
             /\ fs'[flast.dest] = fs[flast.dest]]_vars

\* C19 witness: a temp File with bytes in it has been renamed with success
\* and then destroyed, and the file is at the destination.
C19_Witness ==
    /\ flast.op = "dtor"
    /\ flast.prev.op = "rename"
    /\ flast.prev.ec = "ok"
    /\ flast.prev.wasTemp
    /\ flast.prev.self = flast.self
    /\ flast.prev.dest \in Paths \ TmpPaths
    /\ fs[flast.prev.dest].exists
    /\ Len(fs[flast.prev.dest].bytes) > 0

\* C20: whenever rename returns an error the object is as it was, path and
\* temp flag alike, so that a temp file is still deleted when the object is
\* destroyed right after.
C20_FailedRenameChangesNothing ==
    [][/\ (flast'.op = "rename" /\ flast'.ec # "ok")
          => files'[flast'.self] = files[flast'.self]
       /\ (/\ flast.op = "rename" /\ flast.ec # "ok" /\ flast.wasTemp
           /\ flast'.op = "dtor" /\ flast'.self = flast.self)
          => ~Exists(fs', files[flast.self].path)]_vars

\* C21: rename to a path at which a file exists returns
\* FILE_EXISTS_AT_TARGET_PATH and leaves the filesystem as it was, the
\* source file and the destination file included.
C21_RenameOntoExistingFileFails ==
    [][(/\ flast'.op = "rename"
        /\ flast'.dest \in Paths
        /\ fs[flast'.dest].exists)
       => /\ flast'.ec = "FILE_EXISTS_AT_TARGET_PATH"
          /\ \A p \in Paths : fs'[p] = fs[p]]_vars

\* C21 witness: rename has been refused for a File whose file exists, at
\* another path than the destination and with other bytes.
C21_Witness ==
    /\ flast.op = "rename"
    /\ flast.ec = "FILE_EXISTS_AT_TARGET_PATH"
    /\ files[flast.self].path \in Paths
    /\ files[flast.self].path # flast.dest
    /\ fs[files[flast.self].path].exists
    /\ fs[flast.dest].exists
    /\ fs[files[flast.self].path].bytes # fs[flast.dest].bytes

\* C22: remove() on a File whose path names a file deletes that file, and
\* no other, and returns no error, and test() then returns
\* FILE_DOES_NOT_EXIST; where there is no file it returns
\* FILE_DOES_NOT_EXIST and the filesystem is as it was.
C22_RemoveDeletesOrReports ==
    [][flast'.op = "remove"
       => LET f == flast'.self
              p == files[f].path
          IN IF p \in Paths /\ fs[p].exists
             THEN /\ flast'.ec = "ok"
                  /\ ~fs'[p].exists
                  /\ \A q \in Paths \ {p} : fs'[q] = fs[q]
                  /\ FileTest(fs', files'[f]) = "FILE_DOES_NOT_EXIST"
             ELSE /\ flast'.ec = "FILE_DOES_NOT_EXIST"
                  /\ \A q \in Paths : fs'[q] = fs[q]]_vars

\* C22 witness: remove() has deleted the file of an object and has then
\* been called again on the same object.
C22_Witness ==
    /\ flast.op = "remove"
    /\ flast.ec = "FILE_DOES_NOT_EXIST"
    /\ flast.prev.op = "remove"
    /\ flast.prev.ec = "ok"
    /\ flast.prev.self = flast.self
    /\ FileTest(fs, files[flast.self]) = "FILE_DOES_NOT_EXIST"

\* C23: what is read from a File is empty for a new temp file, is the
\* argument of truncate right after a truncate and is what was read before
\* followed by the argument right after an append; a read changes nothing,
\* so a second read gives the same bytes.
C23_ContentsAreTruncatePlusAppends ==
    [][/\ \A f \in FileIds, sv \in WriteStrs :
            (FileTruncate(f, sv) /\ flast'.ec = "ok")
            => FileContents(fs', files'[f]) = sv
       /\ \A f \in FileIds, sv \in WriteStrs :
            (FileAppend(f, sv) /\ flast'.ec = "ok")
            => FileContents(fs', files'[f])
                  = FileContents(fs, files[f]) \o sv
       /\ (flast'.op = "createTemp" /\ files'[flast'.self].path # NoPath)
          => FileContents(fs', files'[flast'.self]) = <<>>
       /\ flast'.op = "read"
          => /\ \A p \in Paths : fs'[p] = fs[p]
             /\ FileContents(fs', files'[flast'.self])
                   = FileContents(fs, files[flast'.self])]_vars

\* C23 witness: a file has been truncated to one byte string, another has
\* been appended, and the two have been read back in that order.
C23_Witness ==
    /\ flast.op = "read"
    /\ flast.prev.op = "append"
    /\ flast.prev.ec = "ok"
    /\ flast.prev.self = flast.self
    /\ FileContents(fs, files[flast.self]) = <<"b", "a">>

\* C30: rename never replaces a file that is at the destination path:
\* neither one that is there when rename is called, nor one that another
\* process creates between the check and the filesystem rename.
C30_RenameNeverOverwrites ==
    [][/\ (/\ flast'.op = "rename"
           /\ flast'.dest \in Paths
           /\ fs[flast'.dest].exists)
          => fs'[flast'.dest] = fs[flast'.dest]
       /\ \A f \in FileIds, dest \in Paths :
            FileRename(f, dest, TRUE) => fs'[dest] = Data(IntruderBytes)]_vars

\* The n-th object up the inheritance chain of o (o itself for n = 0).
RECURSIVE Ancestor(_, _, _)
Ancestor(inh, o, n) ==
    IF n = 0 THEN o
    ELSE LET a == Ancestor(inh, o, n - 1)
         IN IF a = NoObj THEN NoObj ELSE inh[a]

\* Object o has a default of its own for key k, and that default.
HasDefault(o, k) == o = "p1" /\ k = "TEST1"
DefaultOf(o, k) == StdAny("uint32_t", "1")

\* Object o supplies a value for k itself: one set on it, else its default.
Supplies(vals, o, k) == vals[o][k] # NoValue \/ HasDefault(o, k)
OwnAnswer(vals, o, k) ==
    IF vals[o][k] # NoValue THEN vals[o][k] ELSE DefaultOf(o, k)

\* The value the resolution order gives for key k on object o: the answer
\* of the first object on the chain o, parent, parent's parent, ... that
\* supplies one; NoValue when none does.
Expected(vals, inh, o, k) ==
    LET hits == {n \in 0 .. Cardinality(ParamObjs) - 1 :
                    /\ Ancestor(inh, o, n) # NoObj
                    /\ Supplies(vals, Ancestor(inh, o, n), k)}
    IN IF hits = {} THEN NoValue
       ELSE OwnAnswer(vals,
                      Ancestor(inh, o, CHOOSE n \in hits :
                                          \A m \in hits : n <= m),
                      k)

\* The ErrorOr a call has returned is the value v, or an error when v is
\* NoValue.
Returned(result, v) ==
    IF v # NoValue
    THEN result.alt = "T" /\ result.value = v
    ELSE result.alt = "error_code"

\* C24: what getParameterAny(k) returns is the value set on the object,
\* else the object's own default, else what the object it inherits from
\* resolves k to, else (no such object, or nothing found) an error.
C24_ResolutionOrder ==
    call.pc = "returned"
    => Returned(call.result,
                Expected(parameterValues, inheritFrom, call.obj, call.key))

\* C24 witness: an object with a default of its own and no value set, whose
\* parent has a value set for the key, has returned its own default.
C24_Witness ==
    /\ call.pc = "returned"
    /\ parameterValues[call.obj][call.key] = NoValue
    /\ HasDefault(call.obj, call.key)
    /\ inheritFrom[call.obj] \notin {NoObj, call.obj}
    /\ parameterValues[inheritFrom[call.obj]][call.key] # NoValue
    /\ call.result.alt = "T"
    /\ call.result.value = DefaultOf(call.obj, call.key)

\* The objects object o inherits from, directly or not.
AncestorsOf(inh, o) ==
    {Ancestor(inh, o, n) : n \in 1 .. Cardinality(ParamObjs)} \ {NoObj}

\* C25: clearParameter(k) takes away the value set for k on that object
\* and nothing else, and getParameterAny(k) then returns what it returns
\* for a key never set (own default, else inherited, else error);
\* setParameter on an object changes nothing of what an object that does
\* not inherit from it resolves any key to.
C25_ClearAndSetAreLocal ==
    [][/\ \A o \in ParamObjs, k \in ParamKeys :
            ClearParameter(o, k)
            => /\ parameterValues'[o][k] = NoValue
               /\ \A o2 \in ParamObjs, k2 \in ParamKeys :
                     (o2 # o \/ k2 # k)
                     => parameterValues'[o2][k2] = parameterValues[o2][k2]
               /\ inheritFrom' = inheritFrom
       /\ (/\ call.pc = "running"
           /\ call'.pc = "returned"
           /\ plast.op = "clear"
           /\ plast.obj = call.obj
           /\ plast.key = call.key)
          => Returned(call'.result,
                      IF HasDefault(call.obj, call.key)
                      THEN DefaultOf(call.obj, call.key)
                      ELSE IF inheritFrom[call.obj] # NoObj
                      THEN Expected(parameterValues, inheritFrom,
                                    inheritFrom[call.obj], call.key)
                      ELSE NoValue)
       /\ \A o \in ParamObjs, k \in ParamKeys, value \in AnyValues :
            SetParameter(o, k, value)
            => \A o2 \in ParamObjs \ {o}, k2 \in ParamKeys :
                  o \notin AncestorsOf(inheritFrom, o2)
                  => Expected(parameterValues', inheritFrom', o2, k2)
                        = Expected(parameterValues, inheritFrom, o2, k2)]_vars

\* C25 witness: a value set over an object's default has been cleared,
\* while another key of the object has a value, and getParameterAny has
\* returned the default again.
C25_Witness ==
    /\ call.pc = "returned"
    /\ plast.op = "clear"
    /\ plast.had
    /\ plast.obj = call.obj
    /\ plast.key = call.key
    /\ HasDefault(call.obj, call.key)
    /\ \E k2 \in ParamKeys \ {call.key} :
          parameterValues[call.obj][k2] # NoValue
    /\ call.result.alt = "T"
    /\ call.result.value = DefaultOf(call.obj, call.key)

\* C26: getParameter<U>(k) returns the value getParameterAny(k) returns
\* when that is a value of stored type U, and in every other case an error
\* that is returned without a throw and throws when it is dereferenced.
C26_TypedGetter ==
    call.pc = "returned"
    => \A U \in Types :
          LET r == GetParameter(call.result, U)
          IN IF call.result.alt = "T" /\ call.result.value.type = U
             THEN r.alt = "T" /\ r.value = call.result.value
             ELSE r.alt = "error_code" /\ ErrorOrThrows(r)

\* C26 witness: a value of another type has been set over a default, and
\* the getter for the default's type gives an error.
C26_Witness ==
    /\ call.pc = "returned"
    /\ plast.op = "set"
    /\ plast.obj = call.obj
    /\ plast.key = call.key
    /\ HasDefault(call.obj, call.key)
    /\ call.result.alt = "T"
    /\ call.result.value.type # DefaultOf(call.obj, call.key).type
    /\ GetParameter(call.result, DefaultOf(call.obj, call.key).type).alt
          = "error_code"

\* C29: getParameterAny always returns: no call runs out of stack.
C29_LookupReturns == call.pc # "overflow"

\* The results of getAny for every key and of get<U> for every key and
\* type, on the map vals.
AnyResults(vals) ==
    [key \in AnyKeys |->
        [any |-> AnyGetAny(vals, key),
         typed |-> [U \in Types |-> AnyGet(vals, key, U)]]]

\* The ErrorOr is an error.
IsError(result) == result.alt = "error_code"

\* C27: after set(k, v) getAny(k) returns v, after clear(k) and before any
\* set it returns an error, and so until the next set or clear of k: no
\* operation on another key and no query changes it; get<U>(k) returns the
\* value of getAny(k) when its stored type is U and an error otherwise.
C27_AnyMapLastSetWins ==
    /\ Init => \A key \in AnyKeys : IsError(AnyGetAny(anyValues, key))
    /\ [][/\ \A key \in AnyKeys, value \in AnyValues :
                AnyMapSet(key, value)
                => /\ AnyGetAny(anyValues', key) = ErrorOrOfValue(value)
                   /\ \A k2 \in AnyKeys \ {key} :
                         AnyResults(anyValues')[k2] = AnyResults(anyValues)[k2]
          /\ \A key \in AnyKeys :
                AnyMapClear(key)
                => /\ IsError(AnyGetAny(anyValues', key))
                   /\ \A k2 \in AnyKeys \ {key} :
                         AnyResults(anyValues')[k2] = AnyResults(anyValues)[k2]
          /\ \A key \in AnyKeys :
                AnyMapGetAny(key)
                => /\ AnyResults(anyValues') = AnyResults(anyValues)
                   /\ alast'.result = AnyGetAny(anyValues, key)
          /\ \A key \in AnyKeys, U \in Types :
                AnyMapGet(key, U)
                => /\ AnyResults(anyValues') = AnyResults(anyValues)
                   /\ LET any == AnyGetAny(anyValues, key)
                      IN IF ~IsError(any) /\ any.value.type = U
                         THEN alast'.result = ErrorOrOfValue(any.value)
                         ELSE IsError(alast'.result)]_vars

\* C27 witness: a key holding a value was set to a value of another type
\* while another key holds a value, and get<U> for the new type has
\* returned the new value.
C27_Witness ==
    /\ alast.op = "get"
    /\ alast.change = "set"
    /\ alast.asked = alast.key
    /\ alast.prev # NoValue
    /\ alast.prev.type # alast.value.type
    /\ alast.type = alast.value.type
    /\ alast.result = ErrorOrOfValue(alast.value)
    /\ \E k2 \in AnyKeys \ {alast.key} : Contains(anyValues, k2)

\* What ErrorOr object i was constructed to hold, for one holding a T.
HeldT(made) == IF made.how = "value" THEN made.val ELSE DefaultT

\* C28: every constructed ErrorOr either converts to true and dereferences
\* to the T it holds (T{} when default-constructed), or converts to false,
\* has a truthy error_code() equal to the error it was constructed from
\* and throws when dereferenced; never both.
C28_ValueOrSetError ==
    \A i \in ErrorOrIds :
       errorOrs[i].how # "none"
       => LET made == errorOrs[i]
              isValue == /\ ErrorOrBool(made.obj)
                         /\ ~ErrorOrThrows(made.obj)
                         /\ made.how \in {"default", "value"}
                         /\ made.obj.value = HeldT(made)
              isError == /\ ~ErrorOrBool(made.obj)
                         /\ ErrorCodeBool(ErrorOrErrorCode(made.obj))
                         /\ made.how = "error"
                         /\ ErrorOrErrorCode(made.obj) = made.ec
                         /\ ErrorOrThrows(made.obj)
          IN (isValue /\ ~isError) \/ (isError /\ ~isValue)

\* The last operation was a rename by object f that succeeded and moved
\* the file away from the path of f.
RenamedAway(op, file) ==
    /\ op.op = "rename"
    /\ op.ec = "ok"
    /\ op.dest # file.path

\* C31: rename leaves the path of the object as it was, on success and on
\* failure: after a rename that moved the file away getPath() is the old
\* path, test() finds no file and reading gives nothing; an append by the
\* object right after writes a file at the old path and a remove right
\* after finds nothing to remove, and neither touches the file at the
\* destination.
C31_RenameKeepsPath ==
    [][/\ \A f \in FileIds :
            (flast'.op = "rename" /\ flast'.self = f /\ flast' # flast)
            => /\ GetPath(files'[f]) = files[f].path
               /\ RenamedAway(flast', files[f])
                  => /\ FileTest(fs', files'[f]) = "FILE_DOES_NOT_EXIST"
                     /\ FileContents(fs', files'[f]) = <<>>
       /\ \A f \in FileIds :
            (/\ flast.self = f
             /\ RenamedAway(flast, files[f])
             /\ flast'.self = f
             /\ flast'.op \in {"append", "remove"})
            => /\ fs'[flast.dest] = fs[flast.dest]
               /\ flast'.op = "append"
                  => Exists(fs', files[f].path) /\ flast'.ec = "ok"
               /\ flast'.op = "remove"
                  => fs' = fs /\ flast'.ec = "FILE_DOES_NOT_EXIST"]_vars

\* C31 witness: a file was renamed with success to another path and the
\* object then appended: there is a file with bytes at the object's path
\* and another file, with other bytes, at the destination.
C31_Witness ==
    /\ flast.op = "append"
    /\ flast.prev.op = "rename"
    /\ flast.prev.ec = "ok"
    /\ flast.prev.self = flast.self
    /\ GetPath(files[flast.self]) # flast.prev.dest
    /\ Exists(fs, GetPath(files[flast.self]))
    /\ Exists(fs, flast.prev.dest)
    /\ fs[GetPath(files[flast.self])].bytes # fs[flast.prev.dest].bytes

\* Object f is live and flags the file at its path as a temp file.
FlagsTemp(fl, f) == fl[f].live /\ fl[f].isTemp

\* C32: a temp file is flagged by at most one live object; as long as it
\* has been neither removed nor renamed, the object it was handed to
\* (by createTemp, then by each move) flags it, so that it is there to be
\* deleted, once, when that object is destroyed, and is gone afterwards.
C32_TempFileHasOneHolder ==
    [][/\ \A f, g \in FileIds :
            (f # g /\ FlagsTemp(files', f) /\ FlagsTemp(files', g)
             /\ Exists(fs', files'[f].path))
            => files'[f].path # files'[g].path
       /\ \A f \in FileIds :
            (files'[f].live /\ tempFile'[f] # NoPath)
            => /\ FlagsTemp(files', f)
               /\ files'[f].path = tempFile'[f]
       /\ \A f \in FileIds :
            (flast'.op = "dtor" /\ flast'.self = f /\ flast' # flast
             /\ FlagsTemp(files, f))
            => /\ Exists(fs, files[f].path)
               /\ ~Exists(fs', files[f].path)]_vars

\* View object i covers its whole buffer in the state after the transition.
WholeBufferNext(i) ==
    /\ views'[i].target # NULL
    /\ views'[i].start = 0
    /\ views'[i].len = Len(strings'[views'[i].target])

\* C33: after every completed += (in place or copy-on-write) the
\* appended-to view covers its whole buffer, and a += on it that follows
\* immediately appends in place: the view keeps its buffer and no buffer
\* is allocated or given up.
C33_AppendedViewIsWhole ==
    [][(AppendDone /\ steps' # steps)
       => /\ WholeBufferNext(last'.self)
          /\ (last.op \in {"pluseq", "pluseqchar"} /\ last.self = last'.self)
             => /\ last'.inplace
                /\ views'[last'.self].target = views[last'.self].target
                /\ useCount' = useCount]_vars

\* C33 witness: a view that was rebound by a copy-on-write += has been
\* appended to again, in place, while the buffer it came from is still
\* held by another view.
C33_Witness ==
    /\ last.op \in {"pluseq", "pluseqchar"}
    /\ last.inplace
    /\ ~fault
    /\ last.prev.op \in {"pluseq", "pluseqchar"}
    /\ last.prev.self = last.self
    /\ ~last.prev.inplace
    /\ views[last.self].len = Len(strings[views[last.self].target])
    /\ \E i \in ViewIds :
         /\ i # last.self
         /\ views[i].live
         /\ views[i].target \notin {NULL, views[last.self].target}

\* The six comparison operators on view objects i and j: == is
\* operator==, != its negation, and <, <=, >, >= are read off operator<=>.
OpEq(i, j) == ViewEquals(views[i], views[j])
OpNe(i, j) == ~OpEq(i, j)
OpCmp(i, j) == ViewCompare(views[i], views[j])
OpLt(i, j) == OpCmp(i, j) = "less"
OpLe(i, j) == OpCmp(i, j) \in {"less", "equivalent"}
OpGt(i, j) == OpCmp(i, j) = "greater"
OpGe(i, j) == OpCmp(i, j) \in {"greater", "equivalent"}

\* C34: for every two views, with or without a buffer, a == b holds
\* exactly when a <=> b is equivalent and a <=> b is less exactly when
\* b <=> a is greater; so exactly one of a < b, a == b, a > b holds, and
\* !=, <= and >= agree with them.
C34_ComparisonsAgree ==
    \A i, j \in ViewIds :
       (views[i].live /\ views[j].live)
       => /\ OpEq(i, j) <=> (OpCmp(i, j) = "equivalent")
          /\ OpLt(i, j) <=> OpGt(j, i)
          /\ OpEq(i, j) <=> OpEq(j, i)
          /\ \/ OpLt(i, j) /\ ~OpEq(i, j) /\ ~OpGt(i, j)
             \/ ~OpLt(i, j) /\ OpEq(i, j) /\ ~OpGt(i, j)
             \/ ~OpLt(i, j) /\ ~OpEq(i, j) /\ OpGt(i, j)
          /\ OpNe(i, j) <=> (OpLt(i, j) \/ OpGt(i, j))
          /\ OpLe(i, j) <=> (OpLt(i, j) \/ OpEq(i, j))
          /\ OpGe(i, j) <=> (OpGt(i, j) \/ OpEq(i, j))

\* C34 witness: a view without a buffer next to two views of different
\* buffers with the same bytes: the two are equal and equivalent, the
\* view without a buffer is unequal to them, less than them, and they are
\* greater than it.
C34_Witness ==
    \E i, j, k \in ViewIds :
       /\ views[i].live /\ views[j].live /\ views[k].live
       /\ views[i].target = NULL
       /\ views[j].target # NULL
       /\ views[k].target \notin {NULL, views[j].target}
       /\ OpEq(j, k) /\ OpCmp(j, k) = "equivalent"
       /\ OpNe(i, j) /\ OpLt(i, j) /\ OpGt(j, i)

\* The transition is a call of substr.
SubstrDone == last'.op = "substr" /\ steps' # steps

\* C35: substr allocates no buffer and copies no bytes: the result has
\* the buffer of the parent (none when the parent has none), no buffer
\* without an owner gets one, and the parent, every other view and every
\* buffer's bytes are as before the call.
C35_SubstrSharesBuffer ==
    [][SubstrDone
       => /\ views'[last'.dst].target = views[last'.self].target
          /\ views'[last'.self] = views[last'.self]
          /\ \A i \in ViewIds \ {last'.dst} : views'[i] = views[i]
          /\ strings' = strings
          /\ \A b \in BufIds : useCount[b] = 0 => useCount'[b] = 0]_vars

\* C35 witness: substr has cut a strict, non-empty sub-view with start > 0
\* out of a whole-buffer view, and the two hold the same buffer.
C35_Witness ==
    /\ last.op = "substr"
    /\ views[last.self].target # NULL
    /\ views[last.dst].target = views[last.self].target
    /\ useCount[views[last.self].target] >= 2
    /\ WholeBuffer(last.self)
    /\ views[last.dst].start > 0
    /\ views[last.dst].len > 0

\* The transition is a completed += that took the in-place branch.
InPlaceAppendDone ==
    /\ AppendDone
    /\ steps' # steps
    /\ last'.inplace

\* The string_view s still points at live storage holding its bytes, in
\* the state after the transition (""sv, of a view without a string,
\* points at a literal).
PointsAtItsBytes(s) ==
    \/ s.buf = NULL
    \/ /\ useCount'[s.buf] > 0
       /\ s.start + s.len <= Len(strings'[s.buf])
       /\ SubSeq(strings'[s.buf], s.start + 1, s.start + s.len) = s.bytes

\* C36: a string_view obtained from a view stays valid, pointing at live
\* storage with the same bytes, across every operation other than an
\* in-place += through a view of the same buffer and the release of that
\* buffer's last reference; after an in-place += every view sharing the
\* grown buffer is still within its bounds.
C36_SliceValidity ==
    [][/\ \A s \in slices :
            (s.valid /\ s \notin slices')
            => \/ /\ InPlaceAppendDone
                  /\ views[last'.self].target = s.buf
                  /\ WholeBuffer(last'.self)
               \/ useCount[s.buf] > 0 /\ useCount'[s.buf] = 0
       /\ \A s \in slices' : s.valid => PointsAtItsBytes(s)
       /\ InPlaceAppendDone
          => \A i \in ViewIds :
                (views'[i].live
                 /\ views'[i].target = views'[last'.self].target)
                => views'[i].start + views'[i].len
                      <= Len(strings'[views'[i].target])]_vars

\* C36 witness: an in-place += through a whole-buffer view has grown a
\* buffer and left dangling a string_view obtained from a sub-view with
\* start > 0 that shares the buffer and is still within it.
C36_Witness ==
    /\ last.op \in {"pluseq", "pluseqchar"}
    /\ last.inplace
    /\ ~fault
    /\ \E s2 \in slices, i \in ViewIds :
          /\ ~s2.valid
          /\ s2.buf = views[last.self].target
          /\ s2.start > 0 /\ s2.len > 0
          /\ i # last.self
          /\ views[i].live
          /\ views[i].target = s2.buf
          /\ views[i].start = s2.start
          /\ views[i].start + views[i].len <= Len(strings[views[i].target])
====
